---- MODULE Spec2Model ----
(***************************************************************************)
(* Model of entryclient/entrycli.py: the command-line front-end that      *)
(* parses four positional arguments, reads TERM, builds the websocket     *)
(* endpoint and header list, and hands them to the external EntryClient.  *)
(*                                                                         *)
(* One run of the script is one behaviour.  The inputs of a run are the   *)
(* command line (argv, without the program name) and the environment.     *)
(* EntryClient is an external collaborator: its constructor and its       *)
(* blocking invoke_shell call either return or raise, chosen              *)
(* nondeterministically.                                                   *)
(***************************************************************************)
EXTENDS Integers, Sequences, FiniteSets, TLC

VARIABLES
    argv,          \* sys.argv[1:]
    environ,       \* os.environ, a function from variable names to strings
    pc,            \* position of the single thread of control
    args,          \* main: positional arguments returned by parse_args
    ng_ip,         \* enter: parameters
    ng_port,
    dockerd_ip,
    container_id,
    term_type,     \* enter: locals
    endpoint,
    header_data,
    clientCalls,   \* calls made on the external client, in order
    session,       \* state of the blocking invoke_shell call
    exc,           \* exception in flight ("none" when there is none)
    raised,        \* what the client has raised so far, and from which call
    logged,        \* exceptions passed to logging.exception
    stdout,        \* lines printed on standard output
    stderr,        \* messages written on standard error
    exitStatus     \* {} while the process runs, {n} once it exited with n

vars == <<argv, environ, pc, args, ng_ip, ng_port, dockerd_ip, container_id,
          term_type, endpoint, header_data, clientCalls, session, exc,
          raised, logged, stdout, stderr, exitStatus>>

(***************************************************************************)
(* Bounds and input alphabets.                                             *)
(***************************************************************************)
\* Longest command line explored (5 covers "5 or more" arguments).
MaxArgs == 5

\* Command-line words: plain strings (the empty string included), the help
\* option, an option the parser does not know, and the "--" separator.
PlainWords == {"", "10.0.0.1", "8080"}
HelpOptions == {"-h"}
UnknownOptions == {"-x"}
Words == PlainWords \cup HelpOptions \cup UnknownOptions \cup {"--"}

\* Values TERM may be set to; it may also be unset.
TermValues == {"", "screen", "xterm"}

\* What the external client may raise.  The first set derives from
\* Exception; the second derives from BaseException only.
ExceptionKinds == {"ConnectionRefused", "AuthenticationFailed", "RemoteClosed"}
BaseOnlyKinds == {"KeyboardInterrupt", "SystemExit"}
RaisedKinds == ExceptionKinds \cup BaseOnlyKinds

RECURSIVE SeqsUpTo(_, _)
SeqsUpTo(S, n) ==
    IF n = 0 THEN {<<>>}
    ELSE LET shorter == SeqsUpTo(S, n - 1)
         IN  shorter \cup {Append(s, w) : s \in {t \in shorter : Len(t) = n - 1}, w \in S}

NoEnv == [name \in {} |-> ""]
Environments == {NoEnv} \cup {("TERM" :> v) : v \in TermValues}

(***************************************************************************)
(* Pure helpers.                                                           *)
(***************************************************************************)
usage == "cli.py <ng_ip> <ng_port> <dockertd_ip> <container_id>"

\* optparse: exit status of parser.error
ErrorExitStatus == 2

\* OptionParser.parse_args with no option added: walks the words left to
\* right; "--" ends option processing, -h prints the help and exits, any
\* other option is an error, everything else is a positional argument
\* (interspersed with options).
RECURSIVE ProcessArgs(_, _)
ProcessArgs(rargs, largs) ==
    IF rargs = <<>> THEN [outcome |-> "args", args |-> largs]
    ELSE LET arg == Head(rargs)
         IN  IF arg = "--"
                 THEN [outcome |-> "args", args |-> largs \o Tail(rargs)]
             ELSE IF arg \in HelpOptions
                 THEN [outcome |-> "help", args |-> <<>>]
             ELSE IF arg \in UnknownOptions
                 THEN [outcome |-> "error", args |-> <<>>]
             ELSE ProcessArgs(Tail(rargs), Append(largs, arg))

parse_args(words) == ProcessArgs(words, <<>>)

\* Variant: the test only rejects too few arguments (len(args) < 4).
WrongCount_TooFew(a) == Len(a) < 4

\* Variant: the test also rejects empty arguments.
WrongCount_Validating(a) == Len(a) # 4 \/ \E i \in DOMAIN a : a[i] = ""

\* main: len(args) != 4
WrongCount(a) == Len(a) # 4

\* Variant: os.environ.get(key) or default (an empty value counts as unset).
EnvGet_OrDefault(env, key, default) ==
    IF key \in DOMAIN env /\ env[key] # "" THEN env[key] ELSE default

\* os.environ.get(key, default)
EnvGet(env, key, default) ==
    IF key \in DOMAIN env THEN env[key] ELSE default

\* enter: term_type = os.environ.get("TERM", "xterm")
TermType(env) == EnvGet(env, "TERM", "xterm")

\* Variant: the two format arguments are swapped.
Endpoint_Swapped(ip, port) == "ws://" \o port \o ":" \o ip \o "/enter"

\* enter: endpoint = "ws://%s:%s/enter" % (ng_ip, ng_port)
Endpoint(ip, port) == "ws://" \o ip \o ":" \o port \o "/enter"

\* Variant: the first two headers carry each other's value.
HeaderData_Crossed(dip, cid, term) ==
    << "dockerd_ip: " \o cid, "container_id: " \o dip, "term-type: " \o term >>

\* enter: header_data = [...]
HeaderData(dip, cid, term) ==
    << "dockerd_ip: " \o dip, "container_id: " \o cid, "term-type: " \o term >>

\* Variant: the handler only matches connection errors.
Caught_ConnectionOnly(kind) == kind = "ConnectionRefused"

\* enter: "except Exception" matches instances of Exception only
Caught(kind) == kind \in ExceptionKinds

AdminMessage == "Server stops the connection. Ask admin for help."

\* Exit status of the interpreter when an exception leaves main():
\* SystemExit carries its own code; KeyboardInterrupt ends the process with
\* 1 (or, on newer interpreters, by SIGINT, reported as 130).
UncaughtStatus(kind) ==
    IF kind = "SystemExit" THEN {0, 1} ELSE {1, 130}

(***************************************************************************)
(* Initial state: the script has been started, main() not yet entered.    *)
(***************************************************************************)
Init ==
    /\ argv \in SeqsUpTo(Words, MaxArgs)
    /\ environ \in Environments
    /\ pc = "main"
    /\ args = <<>>
    /\ ng_ip = ""
    /\ ng_port = ""
    /\ dockerd_ip = ""
    /\ container_id = ""
    /\ term_type = ""
    /\ endpoint = ""
    /\ header_data = <<>>
    /\ clientCalls = <<>>
    /\ session = "none"
    /\ exc = "none"
    /\ raised = <<>>
    /\ logged = <<>>
    /\ stdout = <<>>
    /\ stderr = <<>>
    /\ exitStatus = {}

inputs == <<argv, environ>>
frame == <<ng_ip, ng_port, dockerd_ip, container_id>>
locals == <<term_type, endpoint, header_data>>
client == <<clientCalls, session, raised>>
output == <<logged, stdout, stderr>>

(***************************************************************************)
(* main()                                                                  *)
(***************************************************************************)
\* parse_args returns the positional arguments
ParseArgsReturns ==
    /\ pc = "main"
    /\ parse_args(argv).outcome = "args"
    /\ args' = parse_args(argv).args
    /\ pc' = "check"
    /\ UNCHANGED <<inputs, frame, locals, client, exc, output, exitStatus>>

\* parse_args meets -h: prints the help and exits with status 0
ParseArgsHelp ==
    /\ pc = "main"
    /\ parse_args(argv).outcome = "help"
    /\ stdout' = Append(stdout, "Usage: " \o usage)
    /\ exitStatus' = {0}
    /\ pc' = "exited"
    /\ UNCHANGED <<inputs, args, frame, locals, client, exc, logged, stderr>>

\* parse_args meets an unknown option: parser.error
ParseArgsError ==
    /\ pc = "main"
    /\ parse_args(argv).outcome = "error"
    /\ stderr' = Append(stderr, [kind |-> "usage_error", text |-> "no such option"])
    /\ exitStatus' = {ErrorExitStatus}
    /\ pc' = "exited"
    /\ UNCHANGED <<inputs, args, frame, locals, client, exc, logged, stdout>>

\* if len(args) != 4: parser.error('args length shall be 4!')
ArgsLengthError ==
    /\ pc = "check"
    /\ WrongCount(args)
    /\ stderr' = Append(stderr, [kind |-> "usage_error", text |-> "args length shall be 4!"])
    /\ exitStatus' = {ErrorExitStatus}
    /\ pc' = "exited"
    /\ UNCHANGED <<inputs, args, frame, locals, client, exc, logged, stdout>>

\* ng_ip, ng_port, dockerd_ip, container_id = args[0..3]; enter(...)
CallEnter ==
    /\ pc = "check"
    /\ ~WrongCount(args)
    /\ ng_ip' = args[1]
    /\ ng_port' = args[2]
    /\ dockerd_ip' = args[3]
    /\ container_id' = args[4]
    /\ pc' = "enter"
    /\ UNCHANGED <<inputs, args, locals, client, exc, output, exitStatus>>

(***************************************************************************)
(* enter()                                                                 *)
(***************************************************************************)
\* term_type, endpoint and header_data are computed before the try block
BuildRequest ==
    /\ pc = "enter"
    /\ term_type' = TermType(environ)
    /\ endpoint' = Endpoint(ng_ip, ng_port)
    /\ header_data' = HeaderData(dockerd_ip, container_id, TermType(environ))
    /\ pc' = "construct"
    /\ UNCHANGED <<inputs, args, frame, client, exc, output, exitStatus>>

ConstructorCall == [op |-> "EntryClient", endpoint |-> endpoint, header |-> header_data]
ShellCall == [op |-> "invoke_shell", endpoint |-> endpoint, header |-> header_data]

\* client = EntryClient(endpoint, header=header_data) returns
ConstructReturns ==
    /\ pc = "construct"
    /\ clientCalls' = Append(clientCalls, ConstructorCall)
    /\ pc' = "invoke"
    /\ UNCHANGED <<inputs, args, frame, locals, session, raised, exc, output, exitStatus>>

\* client = EntryClient(endpoint, header=header_data) raises
ConstructRaises ==
    /\ pc = "construct"
    /\ \E kind \in RaisedKinds :
          /\ exc' = kind
          /\ raised' = Append(raised, [op |-> "EntryClient", kind |-> kind])
    /\ clientCalls' = Append(clientCalls, ConstructorCall)
    /\ pc' = "except"
    /\ UNCHANGED <<inputs, args, frame, locals, session, output, exitStatus>>

\* Variant: invoke_shell is started without waiting for it.
InvokeShell_Async ==
    /\ pc = "invoke"
    /\ clientCalls' = Append(clientCalls, ShellCall)
    /\ session' = "running"
    /\ pc' = "return"
    /\ UNCHANGED <<inputs, args, frame, locals, raised, exc, output, exitStatus>>

\* client.invoke_shell() is called; the thread blocks inside it
InvokeShell ==
    /\ pc = "invoke"
    /\ clientCalls' = Append(clientCalls, ShellCall)
    /\ session' = "running"
    /\ pc' = "in_shell"
    /\ UNCHANGED <<inputs, args, frame, locals, raised, exc, output, exitStatus>>

\* invoke_shell returns (the remote side closed the session)
ShellReturns ==
    /\ pc = "in_shell"
    /\ session = "running"
    /\ session' = "returned"
    /\ pc' = "return"
    /\ UNCHANGED <<inputs, args, frame, locals, clientCalls, raised, exc, output, exitStatus>>

\* invoke_shell raises
ShellRaises ==
    /\ pc = "in_shell"
    /\ session = "running"
    /\ \E kind \in RaisedKinds :
          /\ exc' = kind
          /\ raised' = Append(raised, [op |-> "invoke_shell", kind |-> kind])
    /\ session' = "raised"
    /\ pc' = "except"
    /\ UNCHANGED <<inputs, args, frame, locals, clientCalls, output, exitStatus>>

\* Variant: the handler tries the connection again.
HandleException_Retry ==
    /\ pc = "except"
    /\ Caught(exc)
    /\ logged' = Append(logged, exc)
    /\ stdout' = Append(stdout, AdminMessage)
    /\ exc' = "none"
    /\ pc' = "construct"
    /\ UNCHANGED <<inputs, args, frame, locals, client, stderr, exitStatus>>

\* except Exception as e: logging.exception(e); print(...)
HandleException ==
    /\ pc = "except"
    /\ Caught(exc)
    /\ logged' = Append(logged, exc)
    /\ stdout' = Append(stdout, AdminMessage)
    /\ exc' = "none"
    /\ pc' = "return"
    /\ UNCHANGED <<inputs, args, frame, locals, client, stderr, exitStatus>>

\* the exception is not an Exception: it leaves enter() and main(), and the
\* interpreter ends the process
Propagate ==
    /\ pc = "except"
    /\ ~Caught(exc)
    /\ \E st \in UncaughtStatus(exc) : exitStatus' = {st}
    /\ stderr' = IF exc = "SystemExit" THEN stderr
                 ELSE Append(stderr, [kind |-> "traceback", text |-> exc])
    /\ pc' = "exited"
    /\ UNCHANGED <<inputs, args, frame, locals, client, exc, logged, stdout>>

\* Variant: the script reports a caught session error in its exit status.
Return_FailOnError ==
    /\ pc = "return"
    /\ exitStatus' = IF logged = <<>> THEN {0} ELSE {1}
    /\ pc' = "exited"
    /\ UNCHANGED <<inputs, args, frame, locals, client, exc, output>>

\* Variant: the print is dedented out of the except block.
Return_AlwaysPrints ==
    /\ pc = "return"
    /\ stdout' = IF logged = <<>> THEN Append(stdout, AdminMessage) ELSE stdout
    /\ exitStatus' = {0}
    /\ pc' = "exited"
    /\ UNCHANGED <<inputs, args, frame, locals, client, exc, logged, stderr>>

\* enter() returns, main() returns, the script ends
Return ==
    /\ pc = "return"
    /\ exitStatus' = {0}
    /\ pc' = "exited"
    /\ UNCHANGED <<inputs, args, frame, locals, client, exc, output>>

Next ==
    \/ ParseArgsReturns
    \/ ParseArgsHelp
    \/ ParseArgsError
    \/ ArgsLengthError
    \/ CallEnter
    \/ BuildRequest
    \/ ConstructReturns
    \/ ConstructRaises
    \/ InvokeShell
    \/ ShellReturns
    \/ ShellRaises
    \/ HandleException
    \/ Propagate
    \/ Return

Spec == Init /\ [][Next]_vars

(***************************************************************************)
(* The front-end's own steps: the thread runs them as soon as it reaches  *)
(* them.  How long the client's constructor and invoke_shell take is up   *)
(* to the client and the remote side, so no fairness is assumed for them. *)
(***************************************************************************)
FrontEndStep ==
    \/ ParseArgsReturns
    \/ ParseArgsHelp
    \/ ParseArgsError
    \/ ArgsLengthError
    \/ CallEnter
    \/ BuildRequest
    \/ InvokeShell
    \/ HandleException
    \/ Propagate
    \/ Return

FairSpec == Spec /\ WF_vars(FrontEndStep)

(***************************************************************************)
(* Vocabulary of the properties.                                           *)
(***************************************************************************)
Parsed == parse_args(argv).outcome = "args"
Positional == parse_args(argv).args
Running == pc # "exited"
Constructions == {i \in DOMAIN clientCalls : clientCalls[i].op = "EntryClient"}
ShellCalls == {i \in DOMAIN clientCalls : clientCalls[i].op = "invoke_shell"}
UsageErrorReported == \E i \in DOMAIN stderr : stderr[i].kind = "usage_error"
TracebackReported == \E i \in DOMAIN stderr : stderr[i].kind = "traceback"
AdminMessages == {i \in DOMAIN stdout : stdout[i] = AdminMessage}
ClientRaised == raised # <<>>
RaisedAnException == \E i \in DOMAIN raised : raised[i].kind \in ExceptionKinds
RaisedBaseOnly == \E i \in DOMAIN raised : raised[i].kind \in BaseOnlyKinds
ConstructionRaised == \E i \in DOMAIN raised : raised[i].op = "EntryClient"
Handled == ClientRaised /\ pc \in {"return", "exited"}
RaisedKindsSeq == [i \in DOMAIN raised |-> raised[i].kind]

(***************************************************************************)
(* C1: when the number of positional arguments is not 4, the run can only *)
(* end in a usage error with a non-zero exit status, it is never stuck    *)
(* before that, and neither EntryClient nor invoke_shell is ever called.  *)
(***************************************************************************)
C1_WrongCountUsageError ==
    (Parsed /\ Len(Positional) # 4) =>
        /\ clientCalls = <<>>
        /\ session = "none"
        /\ pc \in {"main", "check", "exited"}
        /\ Running => ENABLED Next
        /\ ~Running => /\ exitStatus = {2}
                       /\ UsageErrorReported
                       /\ stdout = <<>>

C1_Witness ==
    /\ Parsed
    /\ Len(Positional) = 5
    /\ pc = "exited"
    /\ exitStatus = {2}
    /\ UsageErrorReported

(***************************************************************************)
(* C2 as stated: whatever the client raises is caught in enter(): it is   *)
(* logged, the admin message is printed exactly once, and nothing         *)
(* propagates (no traceback, the run goes on to enter()'s return).        *)
(***************************************************************************)
C2_AnyExceptionCaught ==
    (ClientRaised /\ pc # "except") =>
        /\ logged = RaisedKindsSeq
        /\ Cardinality(AdminMessages) = 1
        /\ ~TracebackReported
        /\ exc = "none"

(***************************************************************************)
(* C2 amended: whatever the client raises that is an instance of          *)
(* Exception is caught in enter(): it is logged, the admin message is     *)
(* printed exactly once, the same for every kind, and nothing propagates. *)
(***************************************************************************)
C2_ExceptionCaught ==
    (RaisedAnException /\ pc # "except") =>
        /\ logged = RaisedKindsSeq
        /\ stdout = <<AdminMessage>>
        /\ stderr = <<>>
        /\ exc = "none"
        /\ pc = "exited" => exitStatus = {0}

C2_Witness ==
    /\ pc = "return"
    /\ raised = <<[op |-> "invoke_shell", kind |-> "AuthenticationFailed"]>>
    /\ logged = <<"AuthenticationFailed">>
    /\ stdout = <<AdminMessage>>

(***************************************************************************)
(* C3: the endpoint passed to EntryClient is "ws://" a1 ":" a2 "/enter",  *)
(* made of the first two positional arguments as given.                   *)
(***************************************************************************)
C3_Endpoint ==
    \A i \in Constructions :
        /\ Parsed
        /\ Len(Positional) = 4
        /\ clientCalls[i].endpoint =
               "ws://" \o Positional[1] \o ":" \o Positional[2] \o "/enter"
        /\ (Positional[1] = "10.0.0.1" /\ Positional[2] = "8080")
               => clientCalls[i].endpoint = "ws://10.0.0.1:8080/enter"
        /\ (Positional[1] = "" /\ Positional[2] = "")
               => clientCalls[i].endpoint = "ws://:/enter"

C3_Witness ==
    /\ Constructions # {}
    /\ Positional[1] = "10.0.0.1"
    /\ Positional[2] = "8080"
    /\ clientCalls[1].endpoint = "ws://10.0.0.1:8080/enter"

(***************************************************************************)
(* C4: the header list passed to EntryClient has exactly three entries,   *)
(* in this order: dockerd_ip with a3, container_id with a4, term-type     *)
(* with the terminal type.                                                 *)
(***************************************************************************)
C4_Headers ==
    \A i \in Constructions :
        /\ Parsed
        /\ Len(Positional) = 4
        /\ Len(clientCalls[i].header) = 3
        /\ clientCalls[i].header[1] = "dockerd_ip: " \o Positional[3]
        /\ clientCalls[i].header[2] = "container_id: " \o Positional[4]
        /\ clientCalls[i].header[3] = "term-type: " \o term_type
        /\ (Positional[3] = "10.0.0.1" /\ Positional[4] = "8080" /\ term_type = "xterm")
               => clientCalls[i].header =
                      <<"dockerd_ip: 10.0.0.1", "container_id: 8080", "term-type: xterm">>

C4_Witness ==
    /\ Constructions # {}
    /\ Positional = <<"8080", "", "10.0.0.1", "8080">>
    /\ clientCalls[1].header =
           <<"dockerd_ip: 10.0.0.1", "container_id: 8080", "term-type: xterm">>

(***************************************************************************)
(* C5: the term-type header carries the value of TERM whenever TERM is    *)
(* set, whatever the value (the empty string included), and "xterm" when  *)
(* TERM is unset.                                                          *)
(***************************************************************************)
C5_TermType ==
    \A i \in Constructions :
        /\ "TERM" \in DOMAIN environ
               => clientCalls[i].header[3] = "term-type: " \o environ["TERM"]
        /\ "TERM" \notin DOMAIN environ
               => clientCalls[i].header[3] = "term-type: xterm"
        /\ environ = ("TERM" :> "screen")
               => clientCalls[i].header[3] = "term-type: screen"
        /\ environ = ("TERM" :> "")
               => clientCalls[i].header[3] = "term-type: "

C5_Witness ==
    /\ Constructions # {}
    /\ environ = ("TERM" :> "")
    /\ clientCalls[1].header[3] = "term-type: "

(***************************************************************************)
(* C6 as stated: after a caught session error the process exits with      *)
(* status 0, as after a session that returned without error, and a        *)
(* non-zero exit status comes from the usage-error path only.             *)
(***************************************************************************)
C6_NonZeroOnlyUsageError ==
    ~Running =>
        /\ logged # <<>> => exitStatus = {0}
        /\ session = "returned" => exitStatus = {0}
        /\ exitStatus # {0} => UsageErrorReported

(***************************************************************************)
(* C6 amended: after a caught session error the process exits with status *)
(* 0, as after a session that returned without error; a non-zero exit     *)
(* status comes from the usage-error path, or from an exception of the    *)
(* client that is not an instance of Exception and so is not caught.      *)
(***************************************************************************)
C6_ExitStatus ==
    ~Running =>
        /\ logged # <<>> => exitStatus = {0}
        /\ session = "returned" => exitStatus = {0}
        /\ exitStatus # {0} => (UsageErrorReported \/ RaisedBaseOnly)
        /\ UsageErrorReported => exitStatus = {2}

C6_Witness ==
    /\ ~Running
    /\ logged = <<"RemoteClosed">>
    /\ session = "raised"
    /\ exitStatus = {0}

(***************************************************************************)
(* C7: in every run EntryClient is constructed at most once and           *)
(* invoke_shell is called at most once, also when either one raises.      *)
(***************************************************************************)
C7_NoRetry ==
    /\ Cardinality(Constructions) <= 1
    /\ Cardinality(ShellCalls) <= 1
    /\ Len(raised) <= 1

C7_Witness ==
    /\ ~Running
    /\ ConstructionRaised
    /\ logged # <<>>
    /\ Cardinality(Constructions) = 1

(***************************************************************************)
(* C8: while invoke_shell is in progress the thread is inside it (enter() *)
(* has not returned); once the call has returned or raised, no further    *)
(* client action happens and the run eventually terminates.               *)
(***************************************************************************)
SessionOver == session \in {"returned", "raised"}

C8_Synchronous ==
    /\ [](session = "running" => pc = "in_shell")
    /\ [][SessionOver => UNCHANGED <<clientCalls, session, raised>>]_vars
    /\ SessionOver ~> ~Running

C8_Witness ==
    /\ ~Running
    /\ session = "raised"
    /\ Cardinality(ShellCalls) = 1

(***************************************************************************)
(* C9: with exactly four positional arguments, whatever they are, the run *)
(* goes on to exactly one EntryClient construction, never to a usage      *)
(* error, and the four strings reach enter() unmodified and in order.     *)
(***************************************************************************)
C9_NoValidation ==
    (Parsed /\ Len(Positional) = 4) =>
        /\ ~UsageErrorReported
        /\ Running => ENABLED Next
        /\ pc \notin {"main", "check"}
               => <<ng_ip, ng_port, dockerd_ip, container_id>> = Positional
        /\ pc \notin {"main", "check", "enter", "construct"}
               => Cardinality(Constructions) = 1

C9_Witness ==
    /\ Positional = <<"", "", "", "">>
    /\ Parsed
    /\ Cardinality(Constructions) = 1
    /\ <<ng_ip, ng_port, dockerd_ip, container_id>> = <<"", "", "", "">>

(***************************************************************************)
(* C10: invoke_shell is called only after EntryClient was constructed     *)
(* without raising, with the endpoint and headers built before; the admin *)
(* message is printed only in runs where the client raised.               *)
(***************************************************************************)
C10_Ordering ==
    /\ \A i \in ShellCalls :
           /\ i = 2
           /\ clientCalls[1].op = "EntryClient"
           /\ clientCalls[1].endpoint = endpoint
           /\ clientCalls[1].header = header_data
           /\ ~ConstructionRaised
    /\ ConstructionRaised => ShellCalls = {}
    /\ AdminMessages # {} => ClientRaised
    /\ (session = "returned" /\ ~ClientRaised) => AdminMessages = {}

C10_Witness ==
    /\ ~Running
    /\ session = "returned"
    /\ stdout = <<>>
    /\ ShellCalls = {2}

====
